---- MODULE Spec2Model ----
(***************************************************************************)
(* A model of sysly (src/lib.rs): the RFC 5424 priority calculator, the    *)
(* line encoder, the two transports and the Syslog appender (factories,    *)
(* configuration setters, severity-named emission methods).                *)
(*                                                                         *)
(* Text is a sequence of one-character strings, so that formatting,        *)
(* splitting and comparing lines are computations on characters.           *)
(* Option<T> is <<"None">> or <<"Some", v>>; io::Result<()> is <<"Ok">> or *)
(* <<"Err", e>>.                                                           *)
(***************************************************************************)
EXTENDS Integers, Sequences, FiniteSets, TLC

VARIABLES
    proc,     \* the calling process: "start", "live" or "panicked"
    ctor,     \* <<>> or <<c>>: the factory call made and what bind/connect gave
    syslog,   \* <<>> or <<s>>: the Syslog value the caller owns
    sends,    \* what Transport::send was asked to do, in order
    calls,    \* the method calls made on the Syslog value, in order
    input,    \* arguments of a direct call of priority / line
    output    \* <<>> or <<r>>: what that direct call returned

vars == <<proc, ctor, syslog, sends, calls, input, output>>

(***************************************************************************)
(* Bounds of the model.                                                    *)
(***************************************************************************)
\* method calls (setters and emissions) made on one Syslog value
MaxCalls == 2

(***************************************************************************)
(* Text.                                                                   *)
(***************************************************************************)
NIL == <<"-">>

None == <<"None">>
Some(v) == <<"Some", v>>
unwrap_or(o, d) == IF o[1] = "Some" THEN o[2] ELSE d

Yo       == <<"y", "o">>
FooLocal == <<"f", "o", "o", ".", "l", "o", "c", "a", "l">>
Sysly    == <<"s", "y", "s", "l", "y">>
Pid16    == <<"1", "6">>
Tcpin    == <<"T", "C", "P", "I", "N">>
Empty    == << >>
TwoWords == <<"a", " ", "b">>

(***************************************************************************)
(* Facility and Severity.                                                  *)
(***************************************************************************)
Shl(n, k) == n * 2^k

Facility ==
    { "KERN", "USER", "MAIL", "DAEMON", "AUTH", "SYSLOG", "LINEPTR", "NEWS",
      "UUCP", "CLOCK", "AUTHPRIV", "FTP", "LOCAL0", "LOCAL1", "LOCAL2",
      "LOCAL3", "LOCAL4", "LOCAL5", "LOCAL6", "LOCAL7" }

\* FacilityCode with the local facilities numbered on from FTP (12..19), not 16..23
FacilityCodeContiguous(f) ==
    CASE f = "KERN"     -> 0
      [] f = "USER"     -> Shl(1, 3)
      [] f = "MAIL"     -> Shl(2, 3)
      [] f = "DAEMON"   -> Shl(3, 3)
      [] f = "AUTH"     -> Shl(4, 3)
      [] f = "SYSLOG"   -> Shl(5, 3)
      [] f = "LINEPTR"  -> Shl(6, 3)
      [] f = "NEWS"     -> Shl(7, 3)
      [] f = "UUCP"     -> Shl(8, 3)
      [] f = "CLOCK"    -> Shl(9, 3)
      [] f = "AUTHPRIV" -> Shl(10, 3)
      [] f = "FTP"      -> Shl(11, 3)
      [] f = "LOCAL0"   -> Shl(12, 3)
      [] f = "LOCAL1"   -> Shl(13, 3)
      [] f = "LOCAL2"   -> Shl(14, 3)
      [] f = "LOCAL3"   -> Shl(15, 3)
      [] f = "LOCAL4"   -> Shl(16, 3)
      [] f = "LOCAL5"   -> Shl(17, 3)
      [] f = "LOCAL6"   -> Shl(18, 3)
      [] f = "LOCAL7"   -> Shl(19, 3)

\* the discriminant of each Facility variant
FacilityCode(f) ==
    CASE f = "KERN"     -> 0
      [] f = "USER"     -> Shl(1, 3)
      [] f = "MAIL"     -> Shl(2, 3)
      [] f = "DAEMON"   -> Shl(3, 3)
      [] f = "AUTH"     -> Shl(4, 3)
      [] f = "SYSLOG"   -> Shl(5, 3)
      [] f = "LINEPTR"  -> Shl(6, 3)
      [] f = "NEWS"     -> Shl(7, 3)
      [] f = "UUCP"     -> Shl(8, 3)
      [] f = "CLOCK"    -> Shl(9, 3)
      [] f = "AUTHPRIV" -> Shl(10, 3)
      [] f = "FTP"      -> Shl(11, 3)
      [] f = "LOCAL0"   -> Shl(16, 3)
      [] f = "LOCAL1"   -> Shl(17, 3)
      [] f = "LOCAL2"   -> Shl(18, 3)
      [] f = "LOCAL3"   -> Shl(19, 3)
      [] f = "LOCAL4"   -> Shl(20, 3)
      [] f = "LOCAL5"   -> Shl(21, 3)
      [] f = "LOCAL6"   -> Shl(22, 3)
      [] f = "LOCAL7"   -> Shl(23, 3)

\* the Severity variants in declaration order; a variant without an explicit
\* discriminant gets its position, counted from 0
SeverityVariants ==
    << "EMERGENCY", "ALERT", "CRITICAL", "ERROR", "WARNING", "NOTICE", "INFO",
       "DEBUG" >>

Severity == { SeverityVariants[i] : i \in DOMAIN SeverityVariants }

\* SeverityCode counted from 1
SeverityCodeFromOne(s) == CHOOSE i \in DOMAIN SeverityVariants : SeverityVariants[i] = s

SeverityCode(s) == (CHOOSE i \in DOMAIN SeverityVariants : SeverityVariants[i] = s) - 1

(***************************************************************************)
(* Priority calculator.                                                    *)
(***************************************************************************)
\* `x as u8`: the low eight bits
AsU8(x) == x % 2^8

RECURSIVE BitOr(_, _)
BitOr(a, b) ==
    IF a = 0 THEN b
    ELSE IF b = 0 THEN a
    ELSE (IF a % 2 = 1 \/ b % 2 = 1 THEN 1 ELSE 0) + 2 * BitOr(a \div 2, b \div 2)

priority(facility, severity) ==
    BitOr(AsU8(FacilityCode(facility)), AsU8(SeverityCode(severity)))

(***************************************************************************)
(* Line encoder.                                                           *)
(***************************************************************************)
Digits == <<"0", "1", "2", "3", "4", "5", "6", "7", "8", "9">>

\* {:?} of a u8: its decimal digits, no sign, no padding
RECURSIVE Decimal(_)
Decimal(n) ==
    IF n < 10 THEN << Digits[n + 1] >>
    ELSE Decimal(n \div 10) \o << Digits[(n % 10) + 1] >>

\* A Tm is modelled by its seconds field; the other fields are fixed.  The
\* rendering of time::Tm::rfc3339 is a text without spaces; of the date and time
\* it writes, the model keeps the "T", the two digits of the seconds and the "Z".
Tm == { 7, 42 }

rfc3339(tm) == <<"T">> \o << Digits[(tm \div 10) + 1], Digits[(tm % 10) + 1] >> \o <<"Z">>

\* the format string of line: literal characters and the two kinds of placeholder
LineFormat ==
    << "<", "{:?}", ">", "1", " ", "{}", " ", "{}", " ", "{}", " ", "{}", " ",
       "{}", " ", "{}" >>

\* format!: each placeholder takes the next argument's text, every other
\* character is copied
RECURSIVE format(_, _)
format(fmt, args) ==
    IF fmt = << >> THEN << >>
    ELSE IF Head(fmt) \in { "{}", "{:?}" }
         THEN Head(args) \o format(Tail(fmt), Tail(args))
         ELSE << Head(fmt) >> \o format(Tail(fmt), args)

\* line with the app-name and procid arguments in each other's place
lineAppPidSwapped(facility, severity, timestamp, host, app, pid, msgid, msg) ==
    format(LineFormat,
           << Decimal(priority(facility, severity)),
              rfc3339(timestamp),
              unwrap_or(host, NIL),
              unwrap_or(pid, NIL),
              unwrap_or(app, NIL),
              unwrap_or(msgid, NIL),
              msg >>)

\* line writing nothing at all for an absent field
lineAbsentEmpty(facility, severity, timestamp, host, app, pid, msgid, msg) ==
    format(LineFormat,
           << Decimal(priority(facility, severity)),
              rfc3339(timestamp),
              unwrap_or(host, Empty),
              unwrap_or(app, Empty),
              unwrap_or(pid, Empty),
              unwrap_or(msgid, Empty),
              msg >>)

line(facility, severity, timestamp, host, app, pid, msgid, msg) ==
    format(LineFormat,
           << Decimal(priority(facility, severity)),
              rfc3339(timestamp),
              unwrap_or(host, NIL),
              unwrap_or(app, NIL),
              unwrap_or(pid, NIL),
              unwrap_or(msgid, NIL),
              msg >>)

(***************************************************************************)
(* Direct calls of the line encoder.  The encoder takes any text: the      *)
(* inputs include an empty token, a token with a space in it, and messages *)
(* that are empty or hold spaces.                                          *)
(***************************************************************************)
Option(S) == { None } \cup { Some(v) : v \in S }

LineFacilities == { "KERN", "USER", "LOCAL0", "LOCAL7" }
LineMessages   == { Yo, Empty, TwoWords }

LineInputs ==
    [ facility  : LineFacilities,
      severity  : Severity,
      timestamp : Tm,
      host      : Option({ FooLocal, Empty, TwoWords }),
      app       : Option({ Sysly, Empty, TwoWords }),
      pid       : Option({ Pid16, Empty, TwoWords }),
      msgid     : Option({ Tcpin, Empty, TwoWords }),
      msg       : LineMessages ]

InitLine ==
    /\ proc = "start"
    /\ ctor = << >>
    /\ syslog = << >>
    /\ sends = << >>
    /\ calls = << >>
    /\ input \in LineInputs
    /\ output = << >>

CallLine ==
    /\ output = << >>
    /\ output' = << line(input.facility, input.severity, input.timestamp,
                         input.host, input.app, input.pid, input.msgid, input.msg) >>
    /\ UNCHANGED <<proc, ctor, syslog, sends, calls, input>>

NextLine == CallLine

SpecLine == InitLine /\ [][NextLine]_vars

(***************************************************************************)
(* Direct calls of the priority calculator: every (facility, severity).    *)
(***************************************************************************)
InitPriority ==
    /\ proc = "start"
    /\ ctor = << >>
    /\ syslog = << >>
    /\ sends = << >>
    /\ calls = << >>
    /\ input \in [facility : Facility, severity : Severity]
    /\ output = << >>

CallPriority ==
    /\ output = << >>
    /\ output' = << priority(input.facility, input.severity) >>
    /\ UNCHANGED <<proc, ctor, syslog, sends, calls, input>>

NextPriority == CallPriority

SpecPriority == InitPriority /\ [][NextPriority]_vars

(***************************************************************************)
(* Transports.  A transport is the pair (UdpSocket, SocketAddr) or a       *)
(* UnixStream; the operating system decides what each write gives.         *)
(***************************************************************************)
Loopback514 == "127.0.0.1:514"

SocketAddrs == { "10.0.0.1:514" }
Paths       == { "/dev/log" }

\* what the operating system may answer to a bind or a connect
BindResults    == { <<"Ok">>, <<"Err", "EADDRINUSE">> }
ConnectResults == { <<"Ok">>, <<"Err", "ENOENT">> }

\* what the operating system may answer to a write on the socket: a datagram
\* to a peer that does not listen is refused, a stream the peer closed is broken
IoOutcomes(transport) ==
    IF transport.kind = "udp" THEN { "Ok", "ECONNREFUSED" } ELSE { "Ok", "EPIPE" }

\* UdpSocket::send_to: the number of bytes sent, or the error
send_to(text, io) == IF io = "Ok" THEN <<"Ok", Len(text)>> ELSE <<"Err", io>>

\* Write::write_all: the whole text written, or the error
write_all(text, io) == IF io = "Ok" THEN <<"Ok">> ELSE <<"Err", io>>

\* Result::map(|_| ())
map_unit(r) == IF r[1] = "Ok" THEN <<"Ok">> ELSE r

\* Transport::send that reports success whatever the write gave
sendSwallowingErrors(transport, text, io) == <<"Ok">>

\* Transport::send of the two implementations
send(transport, text, io) ==
    IF transport.kind = "udp"
    THEN map_unit(send_to(text, io))
    ELSE write_all(text, io)

(***************************************************************************)
(* Syslog: factories.  Each gives << >> when it panics and <<s>> when it   *)
(* returns the value s.                                                    *)
(***************************************************************************)
\* udp returning a value also when the bind failed
udpIgnoringBindError(peer, bind) ==
    << [ facility  |-> "USER",
         host      |-> None,
         app       |-> None,
         pid       |-> None,
         msgid     |-> None,
         transport |-> [kind |-> "udp", peer |-> peer] ] >>

udp(peer, bind) ==
    IF bind[1] = "Err" THEN << >>
    ELSE << [ facility  |-> "USER",
              host      |-> None,
              app       |-> None,
              pid       |-> None,
              msgid     |-> None,
              transport |-> [kind |-> "udp", peer |-> peer] ] >>

localudp(bind) == udp(Loopback514, bind)

\* unix starting from the facility numbered 0
unixDefaultKern(path, connect) ==
    IF connect[1] = "Err" THEN << >>
    ELSE << [ facility  |-> "KERN",
              host      |-> None,
              app       |-> None,
              pid       |-> None,
              msgid     |-> None,
              transport |-> [kind |-> "unix", peer |-> path] ] >>

unix(path, connect) ==
    IF connect[1] = "Err" THEN << >>
    ELSE << [ facility  |-> "USER",
              host      |-> None,
              app       |-> None,
              pid       |-> None,
              msgid     |-> None,
              transport |-> [kind |-> "unix", peer |-> path] ] >>

(***************************************************************************)
(* Syslog: emission.  log and the eight methods take self by mutable       *)
(* reference: each gives self as it is afterwards, the sends it made on    *)
(* the transport and the value it returns.                                 *)
(***************************************************************************)
\* log filling in a host name on the value when none is configured
logFillingHost(self, severity, msg, now, io) ==
    LET formatted == line(self.facility, severity, now, self.host, self.app,
                          self.pid, self.msgid, msg)
    IN  [ self |-> [self EXCEPT !.host = IF @ = None THEN Some(FooLocal) ELSE @],
          sent |-> << [transport |-> self.transport, line |-> formatted, io |-> io] >>,
          ret  |-> send(self.transport, formatted, io) ]

log(self, severity, msg, now, io) ==
    LET formatted == line(self.facility, severity, now, self.host, self.app,
                          self.pid, self.msgid, msg)
    IN  [ self |-> self,
          sent |-> << [transport |-> self.transport, line |-> formatted, io |-> io] >>,
          ret  |-> send(self.transport, formatted, io) ]

debug(self, msg, now, io)     == log(self, "DEBUG", msg, now, io)
info(self, msg, now, io)      == log(self, "INFO", msg, now, io)

\* notice logging at the level its doc comment names
noticeAsInfo(self, msg, now, io) == log(self, "INFO", msg, now, io)

notice(self, msg, now, io)    == log(self, "NOTICE", msg, now, io)
warn(self, msg, now, io)      == log(self, "WARNING", msg, now, io)
err(self, msg, now, io)       == log(self, "ERROR", msg, now, io)
critical(self, msg, now, io)  == log(self, "CRITICAL", msg, now, io)
alert(self, msg, now, io)     == log(self, "ALERT", msg, now, io)
emergency(self, msg, now, io) == log(self, "EMERGENCY", msg, now, io)

(***************************************************************************)
(* Syslog: configuration setters.  Each takes self by value and gives the  *)
(* new value.                                                              *)
(***************************************************************************)
facility(self, f) ==
    [ facility  |-> f,
      host      |-> self.host,
      app       |-> self.app,
      pid       |-> self.pid,
      msgid     |-> self.msgid,
      transport |-> self.transport ]

host(self, local) ==
    [ facility  |-> self.facility,
      host      |-> Some(local),
      app       |-> self.app,
      pid       |-> self.pid,
      msgid     |-> self.msgid,
      transport |-> self.transport ]

app(self, name) ==
    [ facility  |-> self.facility,
      host      |-> self.host,
      app       |-> Some(name),
      pid       |-> self.pid,
      msgid     |-> self.msgid,
      transport |-> self.transport ]

\* pid writing its argument into the app-name
pidIntoApp(self, id) ==
    [ facility  |-> self.facility,
      host      |-> self.host,
      app       |-> Some(id),
      pid       |-> self.pid,
      msgid     |-> self.msgid,
      transport |-> self.transport ]

pid(self, id) ==
    [ facility  |-> self.facility,
      host      |-> self.host,
      app       |-> self.app,
      pid       |-> Some(id),
      msgid     |-> self.msgid,
      transport |-> self.transport ]

msgid(self, id) ==
    [ facility  |-> self.facility,
      host      |-> self.host,
      app       |-> self.app,
      pid       |-> self.pid,
      msgid     |-> Some(id),
      transport |-> self.transport ]

(***************************************************************************)
(* The caller: one factory call, then method calls on the value it got.    *)
(***************************************************************************)
FacilityInputs == { "KERN", "MAIL", "LOCAL0", "LOCAL7" }
HostInputs     == { FooLocal, TwoWords }
AppInputs      == { Sysly }
PidInputs      == { Pid16 }
MsgidInputs    == { Tcpin }
Messages       == { Yo }

Init ==
    /\ proc = "start"
    /\ ctor = << >>
    /\ syslog = << >>
    /\ sends = << >>
    /\ calls = << >>
    /\ input = << >>
    /\ output = << >>

\* a factory call: the process panics when the factory gives no value
Construct(op, arg, io, made) ==
    /\ proc = "start"
    /\ ctor' = << [op |-> op, arg |-> arg, io |-> io] >>
    /\ syslog' = made
    /\ proc' = IF made = << >> THEN "panicked" ELSE "live"
    /\ UNCHANGED <<sends, calls, input, output>>

CallUdp(peer) ==
    \E bind \in BindResults : Construct("udp", peer, bind, udp(peer, bind))

CallLocaludp ==
    \E bind \in BindResults : Construct("localudp", Loopback514, bind, localudp(bind))

CallUnix(path) ==
    \E connect \in ConnectResults : Construct("unix", path, connect, unix(path, connect))

\* a setter call: the old value is moved into the setter, the new one comes back
Configure(op, arg, new) ==
    /\ proc = "live"
    /\ Len(calls) < MaxCalls
    /\ syslog' = << new >>
    /\ calls' = Append(calls, [ op |-> op, arg |-> << arg >>, now |-> 0,
                                self |-> syslog[1], ret |-> << >> ])
    /\ UNCHANGED <<proc, ctor, sends, input, output>>

CallFacility(f) == Configure("facility", f, facility(syslog[1], f))
CallHost(local) == Configure("host", local, host(syslog[1], local))
CallApp(name)   == Configure("app", name, app(syslog[1], name))
CallPid(id)     == Configure("pid", id, pid(syslog[1], id))
CallMsgid(id)   == Configure("msgid", id, msgid(syslog[1], id))

\* what a write on the transport of the caller's value may give
WriteOutcomes == IF syslog = << >> THEN {} ELSE IoOutcomes(syslog[1].transport)

\* an emission call
Emit(op, msg, now, done) ==
    /\ proc = "live"
    /\ Len(calls) < MaxCalls
    /\ syslog' = << done.self >>
    /\ sends' = sends \o done.sent
    /\ calls' = Append(calls, [ op |-> op, arg |-> << msg >>, now |-> now,
                                self |-> syslog[1], ret |-> done.ret ])
    /\ UNCHANGED <<proc, ctor, input, output>>

CallDebug(msg) ==
    \E now \in Tm, io \in WriteOutcomes : Emit("debug", msg, now, debug(syslog[1], msg, now, io))
CallInfo(msg) ==
    \E now \in Tm, io \in WriteOutcomes : Emit("info", msg, now, info(syslog[1], msg, now, io))
CallNotice(msg) ==
    \E now \in Tm, io \in WriteOutcomes : Emit("notice", msg, now, notice(syslog[1], msg, now, io))
CallWarn(msg) ==
    \E now \in Tm, io \in WriteOutcomes : Emit("warn", msg, now, warn(syslog[1], msg, now, io))
CallErr(msg) ==
    \E now \in Tm, io \in WriteOutcomes : Emit("err", msg, now, err(syslog[1], msg, now, io))
CallCritical(msg) ==
    \E now \in Tm, io \in WriteOutcomes :
        Emit("critical", msg, now, critical(syslog[1], msg, now, io))
CallAlert(msg) ==
    \E now \in Tm, io \in WriteOutcomes : Emit("alert", msg, now, alert(syslog[1], msg, now, io))
CallEmergency(msg) ==
    \E now \in Tm, io \in WriteOutcomes :
        Emit("emergency", msg, now, emergency(syslog[1], msg, now, io))

Next ==
    \/ \E peer \in SocketAddrs : CallUdp(peer)
    \/ CallLocaludp
    \/ \E path \in Paths : CallUnix(path)
    \/ \E f \in FacilityInputs : CallFacility(f)
    \/ \E local \in HostInputs : CallHost(local)
    \/ \E name \in AppInputs : CallApp(name)
    \/ \E id \in PidInputs : CallPid(id)
    \/ \E id \in MsgidInputs : CallMsgid(id)
    \/ \E msg \in Messages : CallDebug(msg)
    \/ \E msg \in Messages : CallInfo(msg)
    \/ \E msg \in Messages : CallNotice(msg)
    \/ \E msg \in Messages : CallWarn(msg)
    \/ \E msg \in Messages : CallErr(msg)
    \/ \E msg \in Messages : CallCritical(msg)
    \/ \E msg \in Messages : CallAlert(msg)
    \/ \E msg \in Messages : CallEmergency(msg)

Spec == Init /\ [][Next]_vars

(***************************************************************************)
(* What RFC 5424 says the numbers are, written out independently of the    *)
(* enum declarations.                                                      *)
(***************************************************************************)
RfcFacilityNumber ==
    [ KERN |-> 0, USER |-> 1, MAIL |-> 2, DAEMON |-> 3, AUTH |-> 4, SYSLOG |-> 5,
      LINEPTR |-> 6, NEWS |-> 7, UUCP |-> 8, CLOCK |-> 9, AUTHPRIV |-> 10,
      FTP |-> 11, LOCAL0 |-> 16, LOCAL1 |-> 17, LOCAL2 |-> 18, LOCAL3 |-> 19,
      LOCAL4 |-> 20, LOCAL5 |-> 21, LOCAL6 |-> 22, LOCAL7 |-> 23 ]

RfcSeverityNumber ==
    [ EMERGENCY |-> 0, ALERT |-> 1, CRITICAL |-> 2, ERROR |-> 3, WARNING |-> 4,
      NOTICE |-> 5, INFO |-> 6, DEBUG |-> 7 ]

\* bit i of n
Bit(n, i) == (n \div 2^i) % 2

\* a | b on unbounded naturals below 2^16, bit by bit
OrOf(a, b) ==
    LET bits == 0 .. 15
        or(i) == IF Bit(a, i) = 1 \/ Bit(b, i) = 1 THEN 2^i ELSE 0
        sum[i \in 0 .. 16] == IF i = 0 THEN 0 ELSE sum[i - 1] + or(i - 1)
    IN  sum[16]

PriorityCalled == input \in [facility : Facility, severity : Severity] /\ output # << >>

\* C1: for every facility and severity, priority returns facility_code |
\* severity_code with facility_code = 8 * facility number and severity_code in 0..7;
\* the result is at most 191, so the cast to a byte truncates nothing;
\* (LOCAL0, INFO) gives 134 and (LOCAL7, EMERGENCY) gives 184.
PriorityIsFacilityOrSeverity ==
    PriorityCalled =>
        LET fc == 8 * RfcFacilityNumber[input.facility]
            sc == RfcSeverityNumber[input.severity]
        IN  /\ output[1] = OrOf(fc, sc)
            /\ sc \in 0 .. 7
            /\ output[1] \in 0 .. 191
            /\ (input.facility = "LOCAL0" /\ input.severity = "INFO") => output[1] = 134
            /\ (input.facility = "LOCAL7" /\ input.severity = "EMERGENCY") => output[1] = 184
            /\ (input.facility = "KERN") => output[1] = sc
            /\ (input.facility = "FTP" /\ input.severity = "EMERGENCY") => output[1] = 88
            /\ (input.facility = "LOCAL0" /\ input.severity = "EMERGENCY") => output[1] = 128

PriorityOfLocal7DebugReturned ==
    /\ PriorityCalled
    /\ input.facility = "LOCAL7"
    /\ input.severity = "DEBUG"
    /\ output[1] = 191

\* C10: priority is an injective encoding: it equals facility_code +
\* severity_code, priority mod 8 is the severity code and the rest is the
\* facility code, no other (facility, severity) pair has the same priority, and
\* the 160 pairs give 160 distinct priorities.
PriorityIsInjective ==
    PriorityCalled =>
        LET fc == 8 * RfcFacilityNumber[input.facility]
            sc == RfcSeverityNumber[input.severity]
            p  == output[1]
        IN  /\ p = fc + sc
            /\ p % 8 = sc
            /\ p - (p % 8) = fc
            /\ \A f \in Facility, s \in Severity :
                   priority(f, s) = p => (f = input.facility /\ s = input.severity)
            /\ Cardinality({ priority(f, s) : f \in Facility, s \in Severity }) = 160

PriorityOfMailWarningReturned ==
    /\ PriorityCalled
    /\ input.facility = "MAIL"
    /\ input.severity = "WARNING"
    /\ output[1] = 20

(***************************************************************************)
(* Reading a line back: its space-separated tokens.                        *)
(***************************************************************************)
Spaces(text) == { i \in DOMAIN text : text[i] = " " }

FirstSpace(text) ==
    CHOOSE i \in DOMAIN text : text[i] = " " /\ \A j \in 1 .. (i - 1) : text[j] # " "

\* the pieces of text between single spaces (an empty piece where two spaces
\* meet, or where the text starts or ends with one)
RECURSIVE Split(_)
Split(text) ==
    IF Spaces(text) = {} THEN << text >>
    ELSE << SubSeq(text, 1, FirstSpace(text) - 1) >>
         \o Split(SubSeq(text, FirstSpace(text) + 1, Len(text)))

\* what follows the n-th space of text (text has at least n spaces)
RECURSIVE AfterSpace(_, _)
AfterSpace(text, n) ==
    IF n = 0 THEN text
    ELSE AfterSpace(SubSeq(text, FirstSpace(text) + 1, Len(text)), n - 1)

\* the decimal digits of n < 1000, digit by digit
DecimalText(n) ==
    LET h == n \div 100
        t == (n \div 10) % 10
        u == n % 10
    IN  (IF h > 0 THEN << Digits[h + 1] >> ELSE << >>)
        \o (IF h > 0 \/ t > 0 THEN << Digits[t + 1] >> ELSE << >>)
        \o << Digits[u + 1] >>

\* "<PRI>1" for a facility and a severity, from the RFC's numbers
PriVersion(f, s) ==
    <<"<">> \o DecimalText(8 * RfcFacilityNumber[f] + RfcSeverityNumber[s]) \o <<">", "1">>

\* the text an optional field shows in the line
Shown(o) == IF o = None THEN <<"-">> ELSE o[2]

Present(in) == { k \in { "host", "app", "pid", "msgid" } : in[k] # None }

\* the token position of each optional field
Position == [ host |-> 3, app |-> 4, pid |-> 5, msgid |-> 6 ]

LineCalled == input \in LineInputs /\ output # << >>

\* C2: line returns "<PRI>1 TIMESTAMP HOST APP PROCID MSGID MSG" in that order,
\* each optional position holding the supplied token when present and "-" when
\* absent; with none set the four positions are "-"; with exactly one set (a
\* token without spaces) only that position differs from the all-NIL line; and
\* LOCAL0 / INFO / app "sysly" / "yo" gives "<134>1 <ts> - sysly - - yo".
LineHasFixedOrderWithNil ==
    LineCalled =>
        LET in   == input
            out  == output[1]
            base == line(in.facility, in.severity, in.timestamp,
                         None, None, None, None, in.msg)
        IN  /\ out = PriVersion(in.facility, in.severity) \o <<" ">>
                      \o rfc3339(in.timestamp) \o <<" ">>
                      \o Shown(in.host) \o <<" ">>
                      \o Shown(in.app) \o <<" ">>
                      \o Shown(in.pid) \o <<" ">>
                      \o Shown(in.msgid) \o <<" ">>
                      \o in.msg
            /\ Present(in) = {} =>
                   /\ out = base
                   /\ \A i \in 3 .. 6 : Split(out)[i] = <<"-">>
            /\ \A k \in Present(in) :
                   (Present(in) = { k } /\ Spaces(in[k][2]) = {}) =>
                       /\ Len(Split(out)) = Len(Split(base))
                       /\ \A i \in DOMAIN Split(out) :
                              IF i = Position[k]
                              THEN Split(out)[i] = in[k][2] /\ Split(base)[i] = <<"-">>
                              ELSE Split(out)[i] = Split(base)[i]
            /\ ( /\ in.facility = "LOCAL0" /\ in.severity = "INFO"
                 /\ in.host = None /\ in.app = Some(Sysly)
                 /\ in.pid = None /\ in.msgid = None /\ in.msg = Yo ) =>
                   out = <<"<", "1", "3", "4", ">", "1", " ">> \o rfc3339(in.timestamp)
                         \o <<" ", "-", " ", "s", "y", "s", "l", "y", " ", "-", " ",
                              "-", " ", "y", "o">>

LineWithOnlyAppReturned ==
    /\ LineCalled
    /\ input.facility = "LOCAL0" /\ input.severity = "INFO"
    /\ Present(input) = { "app" } /\ input.app = Some(Sysly)
    /\ input.msg = Yo /\ input.timestamp = 42
    /\ output[1] = <<"<", "1", "3", "4", ">", "1", " ", "T", "4", "2", "Z", " ", "-",
                     " ", "s", "y", "s", "l", "y", " ", "-", " ", "-", " ", "y", "o">>

\* the line read back token by token gives the header fields and the message
HeaderFieldsReadBack(in, out) ==
    LET toks == Split(out)
    IN  /\ Len(toks) >= 7
        /\ toks[1] = PriVersion(in.facility, in.severity)
        /\ toks[2] = rfc3339(in.timestamp)
        /\ toks[3] = Shown(in.host)
        /\ toks[4] = Shown(in.app)
        /\ toks[5] = Shown(in.pid)
        /\ toks[6] = Shown(in.msgid)
        /\ \A i \in 1 .. 6 : toks[i] # << >>
        /\ AfterSpace(out, 6) = in.msg

\* C7 as stated: for every input the encoder accepts, the first six
\* space-separated tokens of the line are <PRI>1, TIMESTAMP, HOST, APP-NAME,
\* PROCID and MSGID, each non-empty, and what follows the sixth space is MSG.
LineAlwaysHasSixHeaderFields ==
    LineCalled => HeaderFieldsReadBack(input, output[1])

\* every present optional field is a non-empty token without a space
TokensWellFormed(in) ==
    \A k \in Present(in) : in[k][2] # << >> /\ Spaces(in[k][2]) = {}

\* C7 amended: for every input whose present host, app, pid and msgid are
\* non-empty and hold no space, the first six space-separated tokens of the line
\* are <PRI>1, TIMESTAMP, HOST, APP-NAME, PROCID and MSGID, each non-empty, and
\* what follows the sixth space is MSG (which may itself hold spaces).
LineHasSixHeaderFieldsForTokens ==
    (LineCalled /\ TokensWellFormed(input)) => HeaderFieldsReadBack(input, output[1])

LineWithAbsentAndPresentFieldsReturned ==
    /\ LineCalled
    /\ TokensWellFormed(input)
    /\ Present(input) = { "host", "msgid" }
    /\ input.msg = TwoWords
    /\ Len(Split(output[1])) = 8

(***************************************************************************)
(* Reading the history of a run.                                           *)
(***************************************************************************)
EmitOps ==
    { "debug", "info", "notice", "warn", "err", "critical", "alert", "emergency" }

SetterOps == { "facility", "host", "app", "pid", "msgid" }

\* RFC 5424's severity number of each emission method, by the method's name
RfcSeverityOfMethod ==
    [ emergency |-> 0, alert |-> 1, critical |-> 2, err |-> 3, warn |-> 4,
      notice |-> 5, info |-> 6, debug |-> 7 ]

IsEmit(c) == c.op \in EmitOps

\* the emission calls of the history, in call order
Emissions == SelectSeq(calls, IsEmit)

\* "<PRI>1" of an emission call, from the configuration it was made on
PriVersionOfCall(c) ==
    <<"<">>
    \o DecimalText(8 * RfcFacilityNumber[c.self.facility] + RfcSeverityOfMethod[c.op])
    \o <<">", "1">>

\* the line an emission call has to send, from the configuration it was made on
LineOfCall(c) ==
    PriVersionOfCall(c) \o <<" ">>
    \o rfc3339(c.now) \o <<" ">>
    \o Shown(c.self.host) \o <<" ">>
    \o Shown(c.self.app) \o <<" ">>
    \o Shown(c.self.pid) \o <<" ">>
    \o Shown(c.self.msgid) \o <<" ">>
    \o c.arg[1]

\* the value a setter call stores in the field it names
Stored(c) == IF c.op = "facility" THEN c.arg[1] ELSE Some(c.arg[1])

\* the value of the last setter call for a field in the history, or the default
RECURSIVE LastSet(_, _, _)
LastSet(history, field, default) ==
    IF history = << >> THEN default
    ELSE IF history[Len(history)].op = field THEN Stored(history[Len(history)])
    ELSE LastSet(SubSeq(history, 1, Len(history) - 1), field, default)

\* the transport the factory call bound
BoundTransport ==
    CASE ctor[1].op = "udp"      -> [kind |-> "udp", peer |-> ctor[1].arg]
      [] ctor[1].op = "localudp" -> [kind |-> "udp", peer |-> "127.0.0.1:514"]
      [] ctor[1].op = "unix"     -> [kind |-> "unix", peer |-> ctor[1].arg]

\* this step is a call of a method in ops
StepCalls(ops) ==
    /\ Len(calls') = Len(calls) + 1
    /\ SubSeq(calls', 1, Len(calls)) = calls
    /\ calls'[Len(calls')].op \in ops

\* C3: every emission call makes exactly one send on the Logger's transport,
\* carrying the line encoded from the configuration at the time of the call, and
\* returns that send's outcome: Ok on success, the I/O error unchanged on
\* failure; after n emission calls the transport has seen n sends, in call order.
EachEmissionIsOneSend ==
    /\ Len(sends) = Len(Emissions)
    /\ \A i \in DOMAIN sends :
          /\ sends[i].transport = Emissions[i].self.transport
          /\ sends[i].transport = BoundTransport
          /\ sends[i].line = LineOfCall(Emissions[i])
          /\ Emissions[i].ret =
                 IF sends[i].io = "Ok" THEN <<"Ok">> ELSE <<"Err", sends[i].io>>

FailedThenSucceededSend ==
    /\ Len(sends) = 2
    /\ sends[1].io = "EPIPE"
    /\ sends[2].io = "Ok"
    /\ calls[1].op = "err" /\ calls[1].ret = <<"Err", "EPIPE">>
    /\ calls[2].op = "info" /\ calls[2].ret = <<"Ok">>
    /\ sends[1].transport.kind = "unix"

\* C4: a setter step changes exactly the field it names to the value given and
\* leaves the other four fields and the transport alone; so at any time each
\* field holds the value of the last setter called for it, or its default, and
\* the transport is the one bound at construction.
SettersChangeOneField ==
    /\ [](syslog # << >> =>
            /\ syslog[1].facility = LastSet(calls, "facility", "USER")
            /\ syslog[1].host = LastSet(calls, "host", None)
            /\ syslog[1].app = LastSet(calls, "app", None)
            /\ syslog[1].pid = LastSet(calls, "pid", None)
            /\ syslog[1].msgid = LastSet(calls, "msgid", None)
            /\ syslog[1].transport = BoundTransport)
    /\ [][StepCalls(SetterOps) =>
            LET c == calls'[Len(calls')]
            IN  /\ syslog'[1][c.op] = Stored(c)
                /\ \A k \in (SetterOps \cup { "transport" }) \ { c.op } :
                       syslog'[1][k] = syslog[1][k]
                /\ Len(syslog') = 1
                /\ sends' = sends]_vars

HostSetTwice ==
    /\ Len(calls) = 2
    /\ calls[1].op = "host" /\ calls[1].arg[1] = FooLocal
    /\ calls[2].op = "host" /\ calls[2].arg[1] = TwoWords
    /\ syslog[1].host = Some(TwoWords)
    /\ syslog[1].transport.kind = "udp"

FactoryDefaults ==
    /\ (syslog # << >> /\ calls = << >>) =>
          /\ syslog[1].facility = "USER"
          /\ 8 * RfcFacilityNumber[syslog[1].facility] = 8
          /\ syslog[1].host = None
          /\ syslog[1].app = None
          /\ syslog[1].pid = None
          /\ syslog[1].msgid = None
          /\ ctor[1].op \in { "udp", "localudp", "unix" }
    /\ \A i \in DOMAIN calls :
          (\A j \in 1 .. i : IsEmit(calls[j])) =>
              /\ Len(sends) >= i
              /\ Split(sends[i].line)[1] =
                     <<"<">> \o DecimalText(OrOf(8, RfcSeverityOfMethod[calls[i].op]))
                     \o <<">", "1">>
              /\ \A k \in 3 .. 6 : Split(sends[i].line)[k] = <<"-">>

UnixDefaultsEmitted ==
    /\ ctor # << >> /\ ctor[1].op = "unix"
    /\ Len(calls) = 1 /\ calls[1].op = "debug"
    /\ sends[1].line = <<"<", "1", "5", ">", "1", " ", "T", "0", "7", "Z", " ", "-",
                         " ", "-", " ", "-", " ", "-", " ", "y", "o">>

\* C8: an emission step, whether its send succeeded or failed, leaves the
\* facility, host, app, pid, msgid and transport as they were and adds exactly
\* its own send to what the transport has seen; two emissions with the same
\* method and message on the same configuration send lines that differ at most
\* in the timestamp.
EmissionLeavesLoggerUnchanged ==
    /\ [][StepCalls(EmitOps) =>
            /\ syslog' = syslog
            /\ proc' = proc
            /\ Len(sends') = Len(sends) + 1
            /\ SubSeq(sends', 1, Len(sends)) = sends
            /\ sends'[Len(sends')].line = LineOfCall(calls'[Len(calls')])]_vars
    /\ [](\A i, j \in DOMAIN Emissions :
            ( /\ Emissions[i].op = Emissions[j].op
              /\ Emissions[i].arg = Emissions[j].arg
              /\ Emissions[i].self = Emissions[j].self )
            => /\ Split(sends[i].line)[1] = Split(sends[j].line)[1]
               /\ AfterSpace(sends[i].line, 2) = AfterSpace(sends[j].line, 2))

SameEmissionAfterFailure ==
    /\ Len(sends) = 2
    /\ calls[1].op = "warn" /\ calls[2].op = "warn"
    /\ calls[1].ret = <<"Err", "ECONNREFUSED">>
    /\ calls[2].ret = <<"Ok">>
    /\ calls[1].now # calls[2].now
    /\ sends[1].line # sends[2].line
    /\ calls[2].self = calls[1].self /\ syslog[1] = calls[1].self

\* C9: when the bind (udp, localudp) or the connect (unix) fails the factory
\* panics and gives no Logger, so nothing is ever configured or sent; when it
\* succeeds the factory gives a Logger.
ConstructionFailureIsFatal ==
    /\ ctor = << >> => (proc = "start" /\ syslog = << >> /\ calls = << >> /\ sends = << >>)
    /\ ctor # << >> =>
          IF ctor[1].io[1] = "Err"
          THEN proc = "panicked" /\ syslog = << >> /\ calls = << >> /\ sends = << >>
          ELSE proc = "live" /\ Len(syslog) = 1 /\ syslog[1].transport = BoundTransport

BindFailedAndPanicked ==
    /\ ctor # << >>
    /\ ctor[1].op = "localudp"
    /\ ctor[1].io = <<"Err", "EADDRINUSE">>
    /\ proc = "panicked"

====
